---- MODULE Spec2Model ----
(***************************************************************************)
(* Model of tr_readable (src/src/lib.rs): decoding of little-endian        *)
(* structured data from a forward-only byte stream.                        *)
(*                                                                         *)
(* One call of one entry point is modelled per behaviour: the caller is    *)
(* idle, calls read_vec / read_list / read_list_2d / read_meshes /         *)
(* get_zlib / skip on a reader and the call runs to its return.  The       *)
(* reader is a byte sequence `stream` with the number of bytes consumed    *)
(* `pos`.  read_meshes and skip are modelled one loop iteration per step;  *)
(* the other entry points are one action each.                             *)
(*                                                                         *)
(* usize is taken to be 64 bits wide; every length the bounded streams     *)
(* can encode is below 2^25, so `len * 2` never overflows (it would not    *)
(* on a 32-bit usize either).                                              *)
(***************************************************************************)
EXTENDS Integers, Sequences, FiniteSets, TLC

\* ------------------------------------------------------------- bounds
MaxCount == 4      \* low byte of a length field ranges over 0..MaxCount
MaxBody == 9       \* bytes that follow the length field(s) in a stream
MaxRecSize == 6    \* bytes one record decode of read_meshes may ask for
MaxVec == 4        \* records read_meshes accumulates before the model stops
MaxSkip == 5       \* the N of skip::<N>

HighBytes == {0, 1}
Widths == {16, 32}
ElemSizes == {1, 2}

\* ------------------------------------------------------ reader domains
\* The bytes that follow the header: byte i carries the value i, so that
\* every position is told apart.
Body(n) == [i \in 1..n |-> i]

Hdr16 == {<<a, b>> : a \in 0..MaxCount, b \in HighBytes}

Hdr32 == {<<a, b, c, d>> : a \in 0..MaxCount, b \in HighBytes,
                           c \in HighBytes, d \in {0}} \cup
         {<<a, 0, 0, 1>> : a \in 0..MaxCount}

\* Every prefix of header \o body: the stream may end anywhere.
Streams(hdrs) ==
    UNION {{SubSeq(h \o Body(MaxBody), 1, m) : m \in 0..(Len(h) + MaxBody)} :
           h \in hdrs}

\* ------------------------------------------------------------ results
Ok(p, v) == [ok |-> TRUE, pos |-> p, val |-> v]
Err(p) == [ok |-> FALSE, pos |-> p, err |-> "UnexpectedEof"]

\* What the caller receives: Ok(value) or Err(error), nothing else.
RetOk(v) == [ok |-> TRUE, val |-> v]
RetErr(e) == [ok |-> FALSE, err |-> e]
NoRet == [ok |-> FALSE, err |-> "pending"]

\* --------------------------------------------------------- primitives
RECURSIVE LEValue(_, _, _)
LEValue(s, p, n) ==
    IF n = 0 THEN 0 ELSE s[p + 1] + 256 * LEValue(s, p + 1, n - 1)

\* reader.read_uN::<LE>(): read_exact of n bytes, then the little-endian value.
\* On a short read the position reported is the one before the read; how many
\* of the remaining bytes the failed read_exact took is chosen by the caller
\* of this operator (AfterErr).
ReadPrim(s, p, n) ==
    IF p + n <= Len(s) THEN Ok(p + n, LEValue(s, p, n)) ELSE Err(p)

\* The positions a reader may be left at by a failed read_exact that started
\* at p: it takes none, some or all of the bytes that remain.
AfterErr(s, p) == p..Len(s)

\* Mutant of ReadLen: the u32 implementation reads a u16.
ReadLen_AlwaysU16(s, p, w) == ReadPrim(s, p, 2)

\* Len::read_len for u16 (w = 16) and u32 (w = 32).
ReadLen(s, p, w) == ReadPrim(s, p, w \div 8)

\* Mutant of ReadVecLoop: a failed element ends the loop and the elements read
\* so far are returned.
RECURSIVE ReadVecLoop_Partial(_, _, _, _, _)
ReadVecLoop_Partial(s, p, left, esz, vec) ==
    IF left = 0 THEN Ok(p, vec)
    ELSE LET r == ReadPrim(s, p, esz)
         IN  IF ~r.ok THEN Ok(p, vec)
             ELSE ReadVecLoop_Partial(s, r.pos, left - 1, esz,
                                      Append(vec, r.val))

RECURSIVE ReadVecLoop(_, _, _, _, _)
ReadVecLoop(s, p, left, esz, vec) ==
    IF left = 0 THEN Ok(p, vec)
    ELSE LET r == ReadPrim(s, p, esz)
         IN  IF ~r.ok THEN r
             ELSE ReadVecLoop(s, r.pos, left - 1, esz, Append(vec, r.val))

ReadVec(s, p, len, esz) == ReadVecLoop(s, p, len, esz, <<>>)

ReadList(s, p, w, esz) ==
    LET l == ReadLen(s, p, w)
    IN  IF ~l.ok THEN l ELSE ReadVec(s, l.pos, l.val, esz)

RECURSIVE ReadRows(_, _, _, _, _, _)
ReadRows(s, p, left, len2, esz, vec) ==
    IF left = 0 THEN Ok(p, vec)
    ELSE LET r == ReadVec(s, p, len2, esz)
         IN  IF ~r.ok THEN r
             ELSE ReadRows(s, r.pos, left - 1, len2, esz, Append(vec, r.val))

\* Mutant of ReadList2d: the two counts are taken in the other order.
ReadList2d_Swapped(s, p, esz) ==
    LET l2 == ReadLen(s, p, 16)
    IN  IF ~l2.ok THEN l2
        ELSE LET l1 == ReadLen(s, l2.pos, 16)
             IN  IF ~l1.ok THEN l1
                 ELSE ReadRows(s, l1.pos, l1.val, l2.val, esz, <<>>)

ReadList2d(s, p, esz) ==
    LET l1 == ReadLen(s, p, 16)
    IN  IF ~l1.ok THEN l1
        ELSE LET l2 == ReadLen(s, l1.pos, 16)
             IN  IF ~l2.ok THEN l2
                 ELSE ReadRows(s, l2.pos, l1.val, l2.val, esz, <<>>)

\* Mutant of GetZlib: the payload is sized by uncompressed_len.
GetZlib_UncompressedLen(s, p) ==
    LET u == ReadLen(s, p, 32)
    IN  IF ~u.ok THEN u
        ELSE LET c == ReadLen(s, u.pos, 32)
             IN  IF ~c.ok THEN c ELSE ReadVec(s, c.pos, u.val, 1)

\* get_zlib: the value is the byte vector the Decoder is built over.
GetZlib(s, p) ==
    LET u == ReadLen(s, p, 32)
    IN  IF ~u.ok THEN u
        ELSE LET c == ReadLen(s, u.pos, 32)
             IN  IF ~c.ok THEN c ELSE ReadVec(s, c.pos, c.val, 1)

\* Mutant of NumBytes: the stored count is taken as the byte length.
NumBytes_NotDoubled(len) == len

\* read_meshes, line 91: the stored half-count times two.
NumBytes(len) == len * 2

\* read_meshes, line 98: `num_bytes - pos1 == 0` on u64.  With pos1 > num_bytes
\* the subtraction overflows: a build with overflow checks panics, a build
\* without them wraps to 2^64 - (pos1 - num_bytes), which is not 0.
SubOverflows(nb, p1) == p1 > nb
StopCheck(nb, p1) == IF p1 <= nb THEN nb - p1 = 0 ELSE FALSE

\* Mutants of Align: no correction at all; the test on the absolute offset.
Align_None(p1, p2) == p2
Align_Absolute(p1, p2) == IF p2 % 4 # 0 THEN p2 + 2 ELSE p2

\* read_meshes, lines 102-105: the cursor after the alignment correction.
Align(p1, p2) == IF (p2 - p1) % 4 # 0 THEN p2 + 2 ELSE p2

\* Cursor<Vec<u8>>: the bytes left to read at position c (none once c is past
\* the end).
Remaining(buf, c) == IF c <= Len(buf) THEN Len(buf) - c ELSE 0

\* -------------------------------------------------------------- state
VARIABLES
    stream,           \* the reader's bytes
    pos,              \* bytes of `stream` consumed so far
    pc,               \* "idle", "meshes", "skip", "done"
    op,               \* the entry point called
    arg,              \* its type/const parameters
    ret,              \* what the call returned
    overflow_checks,  \* the build panics on integer overflow
    num_bytes,        \* read_meshes: B
    bytes,            \* read_meshes: the buffered region
    cursor,           \* read_meshes: position of the Cursor over `bytes`
    vec,              \* read_meshes: records decoded so far
    skip_i,           \* skip: iterations completed
    reads             \* skip: read_exact calls made

vars == <<stream, pos, pc, op, arg, ret, overflow_checks, num_bytes, bytes,
          cursor, vec, skip_i, reads>>

meshVars == <<num_bytes, bytes, cursor, vec>>
skipVars == <<skip_i, reads>>

Init ==
    /\ stream = <<>>
    /\ pos = 0
    /\ pc = "idle"
    /\ op = "none"
    /\ arg = [esz |-> 0]
    /\ ret = NoRet
    /\ overflow_checks \in BOOLEAN
    /\ num_bytes = 0
    /\ bytes = <<>>
    /\ cursor = 0
    /\ vec = <<>>
    /\ skip_i = 0
    /\ reads = 0

\* The call returns r: Ok(value) with the reader at r.pos, or the error with
\* the reader somewhere in AfterErr.
Return(s, r) ==
    /\ pc' = "done"
    /\ IF r.ok
       THEN ret' = RetOk(r.val) /\ pos' = r.pos
       ELSE ret' = RetErr(r.err) /\ pos' \in AfterErr(s, r.pos)

CallReadVec ==
    /\ pc = "idle"
    /\ \E s \in Streams({<<>>}), len \in 0..MaxCount, esz \in ElemSizes :
          /\ stream' = s
          /\ op' = "read_vec"
          /\ arg' = [len |-> len, esz |-> esz]
          /\ Return(s, ReadVec(s, 0, len, esz))
    /\ UNCHANGED <<overflow_checks, meshVars, skipVars>>

CallReadList ==
    /\ pc = "idle"
    /\ \E w \in Widths, esz \in ElemSizes :
       \E s \in Streams(IF w = 16 THEN Hdr16 ELSE Hdr32) :
          /\ stream' = s
          /\ op' = "read_list"
          /\ arg' = [w |-> w, esz |-> esz]
          /\ Return(s, ReadList(s, 0, w, esz))
    /\ UNCHANGED <<overflow_checks, meshVars, skipVars>>

CallReadList2d ==
    /\ pc = "idle"
    /\ \E h1 \in Hdr16, h2 \in Hdr16, esz \in ElemSizes :
       \E s \in Streams({h1 \o h2}) :
          \* 256 or more rows of no elements are left out: ReadRows would
          \* recurse once per row, deeper than the evaluator's stack.
          /\ h1[2] = 0 \/ h2 # <<0, 0>>
          /\ stream' = s
          /\ op' = "read_list_2d"
          /\ arg' = [esz |-> esz]
          /\ Return(s, ReadList2d(s, 0, esz))
    /\ UNCHANGED <<overflow_checks, meshVars, skipVars>>

CallGetZlib ==
    /\ pc = "idle"
    /\ \E h1 \in Hdr32, h2 \in Hdr32 :
       \E s \in Streams({h1 \o h2}) :
          /\ stream' = s
          /\ op' = "get_zlib"
          /\ arg' = [esz |-> 1]
          /\ Return(s, GetZlib(s, 0))
    /\ UNCHANGED <<overflow_checks, meshVars, skipVars>>

\* read_meshes, lines 91-95: the header and the buffered region.
ReadMeshesBegin ==
    /\ pc = "idle"
    /\ \E s \in Streams(Hdr32) :
          /\ stream' = s
          /\ op' = "read_meshes"
          /\ arg' = [esz |-> 0]
          /\ LET l == ReadLen(s, 0, 32)
                 b == ReadVec(s, l.pos, NumBytes(l.val), 1)
             IN  IF ~l.ok
                 THEN Return(s, l) /\ UNCHANGED meshVars
                 ELSE IF ~b.ok
                 THEN /\ Return(s, b)
                      /\ num_bytes' = NumBytes(l.val)
                      /\ UNCHANGED <<bytes, cursor, vec>>
                 ELSE /\ pc' = "meshes"
                      /\ pos' = b.pos
                      /\ ret' = ret
                      /\ num_bytes' = NumBytes(l.val)
                      /\ bytes' = b.val
                      /\ cursor' = 0
                      /\ vec' = <<>>
    /\ UNCHANGED <<overflow_checks, skipVars>>

\* read_meshes, lines 96-106: one iteration of the loop.  T::read is the
\* decode of a record type: it asks the Cursor for sz bytes, sz fixed by the
\* type and the data, and fails when the Cursor cannot supply them.
ReadMeshesIter ==
    /\ pc = "meshes"
    /\ UNCHANGED <<stream, pos, op, arg, overflow_checks, num_bytes, bytes,
                   skipVars>>
    /\ \/ /\ SubOverflows(num_bytes, cursor)
          /\ overflow_checks
          /\ pc' = "done"
          /\ ret' = RetErr("panic")
          /\ UNCHANGED <<cursor, vec>>
       \/ /\ ~(SubOverflows(num_bytes, cursor) /\ overflow_checks)
          /\ StopCheck(num_bytes, cursor)
          /\ pc' = "done"
          /\ ret' = RetOk(vec)
          /\ UNCHANGED <<cursor, vec>>
       \/ /\ ~(SubOverflows(num_bytes, cursor) /\ overflow_checks)
          /\ ~StopCheck(num_bytes, cursor)
          /\ \E sz \in 0..MaxRecSize :
                IF sz <= Remaining(bytes, cursor)
                THEN /\ Len(vec) < MaxVec
                     /\ vec' = Append(vec, SubSeq(bytes, cursor + 1, cursor + sz))
                     /\ cursor' = Align(cursor, cursor + sz)
                     /\ UNCHANGED <<pc, ret>>
                ELSE /\ pc' = "done"
                     /\ ret' = RetErr("UnexpectedEof")
                     /\ UNCHANGED <<cursor, vec>>

\* skip::<N>, line 118.
SkipBegin ==
    /\ pc = "idle"
    /\ \E s \in Streams({<<>>}), n \in 0..MaxSkip :
          /\ stream' = s
          /\ arg' = [n |-> n]
    /\ op' = "skip"
    /\ pc' = "skip"
    /\ skip_i' = 0
    /\ reads' = 0
    /\ UNCHANGED <<pos, ret, overflow_checks, meshVars>>

\* Mutant of SkipStep: the result of read_exact is dropped and the loop goes on.
SkipStep_IgnoresError ==
    /\ pc = "skip"
    /\ UNCHANGED <<stream, op, arg, overflow_checks, meshVars>>
    /\ IF skip_i = arg.n
       THEN /\ pc' = "done"
            /\ ret' = RetOk(<<>>)
            /\ UNCHANGED <<pos, skip_i, reads>>
       ELSE LET r == ReadPrim(stream, pos, 1)
            IN  /\ reads' = reads + 1
                /\ pos' = r.pos
                /\ skip_i' = skip_i + 1
                /\ UNCHANGED <<pc, ret>>

\* skip::<N>, lines 119-122: one iteration, or the return after the last.
SkipStep ==
    /\ pc = "skip"
    /\ UNCHANGED <<stream, op, arg, overflow_checks, meshVars>>
    /\ IF skip_i = arg.n
       THEN /\ pc' = "done"
            /\ ret' = RetOk(<<>>)
            /\ UNCHANGED <<pos, skip_i, reads>>
       ELSE LET r == ReadPrim(stream, pos, 1)
            IN  /\ reads' = reads + 1
                /\ IF r.ok
                   THEN /\ pos' = r.pos
                        /\ skip_i' = skip_i + 1
                        /\ UNCHANGED <<pc, ret>>
                   ELSE /\ pc' = "done"
                        /\ ret' = RetErr(r.err)
                        /\ pos' \in AfterErr(stream, r.pos)
                        /\ UNCHANGED skip_i

Next ==
    \/ CallReadVec
    \/ CallReadList
    \/ CallReadList2d
    \/ CallGetZlib
    \/ ReadMeshesBegin
    \/ ReadMeshesIter
    \/ SkipBegin
    \/ SkipStep

Spec == Init /\ [][Next]_vars

\* ============================================================== claims
\* The fields of the wire format, written out byte by byte.
U16At(s, o) == s[o + 1] + 256 * s[o + 2]
U32At(s, o) == s[o + 1] + 256 * s[o + 2] + 65536 * s[o + 3] + 16777216 * s[o + 4]
ElemAt(s, o, esz) == IF esz = 1 THEN s[o + 1] ELSE U16At(s, o)

\* read_meshes was called on a stream that holds the header and the region.
MeshBuffered ==
    /\ op = "read_meshes"
    /\ Len(stream) >= 4
    /\ Len(stream) >= 4 + 2 * U32At(stream, 0)

\* The layout of the records decoded so far: record i takes Len(vec[i]) bytes
\* and is followed by 2 padding bytes when that size mod 4 is 2.
RECURSIVE LayoutEnd(_)
LayoutEnd(k) ==
    IF k = 0 THEN 0
    ELSE LayoutEnd(k - 1) + Len(vec[k]) + (IF Len(vec[k]) % 4 = 2 THEN 2 ELSE 0)

EvenPositiveRecords ==
    \A i \in 1..Len(vec) : Len(vec[i]) > 0 /\ Len(vec[i]) % 2 = 0

\* C1: on a region laid out as records of even, positive size, each followed
\* by 2 padding bytes when its size mod 4 is 2, read_meshes decodes record i
\* from its place in the layout, keeps the cursor at the end of the layout
\* decoded so far, and when that end is B it returns exactly those records, in
\* order, with the cursor at B.
C1_WellFormedRegion ==
    (MeshBuffered /\ EvenPositiveRecords) =>
        /\ \A i \in 1..Len(vec) :
              vec[i] = SubSeq(bytes, LayoutEnd(i - 1) + 1,
                              LayoutEnd(i - 1) + Len(vec[i]))
        /\ cursor = LayoutEnd(Len(vec))
        /\ (pc = "done" /\ LayoutEnd(Len(vec)) = num_bytes) =>
              /\ ret = RetOk(vec)
              /\ cursor = num_bytes

\* half_len = 4, one 6-byte record and 2 padding bytes: one record returned.
C1_Witness ==
    /\ MeshBuffered /\ pc = "done"
    /\ U32At(stream, 0) = 4
    /\ num_bytes = 8
    /\ ret = RetOk(<<SubSeq(bytes, 1, 6)>>)
    /\ cursor = 8

\* C2: with records of even size, at every evaluation of the stop check (and
\* so at the start of every record decode) the cursor is at most B, so
\* `B - cursor` never underflows.
C2_CursorWithinRegion ==
    (pc = "meshes" /\ \A i \in 1..Len(vec) : Len(vec[i]) % 2 = 0) =>
        /\ cursor <= num_bytes
        /\ ~SubOverflows(num_bytes, cursor)

\* C3: a successful record decode that started at `cursor` and consumed
\* `consumed` bytes leaves the cursor at cursor + consumed, plus exactly 2 iff
\* consumed mod 4 is not 0; and while every record consumed an even number of
\* bytes, the decode started, and the next one starts, at a multiple of 4.
C3_Alignment ==
    [][(pc = "meshes" /\ pc' = "meshes") =>
          LET consumed == Len(vec'[Len(vec')])
          IN  /\ Len(vec') = Len(vec) + 1
              /\ cursor' = cursor + consumed + (IF consumed % 4 # 0 THEN 2 ELSE 0)
              /\ (\A i \in 1..Len(vec') : Len(vec'[i]) % 2 = 0) =>
                    (cursor % 4 = 0 /\ cursor' % 4 = 0)]_vars

\* A record of size 2 mod 4 and then one of size 0 mod 4 were decoded.
C3_Witness ==
    /\ pc = "meshes"
    /\ Len(vec) >= 2
    /\ Len(vec[1]) = 2
    /\ Len(vec[2]) = 4
    /\ cursor = 8

\* C4: when the stream holds the 4 header bytes and B = 2 * half_len more,
\* read_meshes has taken exactly those 4 + B bytes into its buffer before the
\* first record decode, and the outer stream stays at 4 + B through every
\* iteration and in the final state, whatever the call returns.
C4_OuterFrame ==
    MeshBuffered =>
        /\ pc \in {"meshes", "done"}
        /\ num_bytes = 2 * U32At(stream, 0)
        /\ pos = 4 + num_bytes
        /\ bytes = SubSeq(stream, 5, 4 + num_bytes)

\* A record decode failed after one had succeeded; bytes follow the region.
C4_Witness ==
    /\ MeshBuffered /\ pc = "done"
    /\ ret = RetErr("UnexpectedEof")
    /\ Len(vec) >= 1
    /\ pos = 4 + num_bytes
    /\ pos < Len(stream)

\* The bytes a complete decode takes, by entry point (the length fields read
\* from the stream as the wire format lays them out).
ListHdr == arg.w \div 8
ListCount == IF arg.w = 16 THEN U16At(stream, 0) ELSE U32At(stream, 0)
ListNeed == ListHdr + ListCount * arg.esz
GridNeed == 4 + U16At(stream, 0) * U16At(stream, 2) * arg.esz

\* The stream is too short for every element of the declared shape.
Truncated ==
    CASE op = "read_vec" -> Len(stream) < arg.len * arg.esz
      [] op = "read_list" -> Len(stream) < ListHdr \/ Len(stream) < ListNeed
      [] op = "read_list_2d" -> Len(stream) < 4 \/ Len(stream) < GridNeed
      [] op = "read_meshes" -> ~MeshBuffered
      [] OTHER -> FALSE

\* The collection returned holds every element of the declared shape.
Complete ==
    CASE op = "read_vec" -> Len(ret.val) = arg.len
      [] op = "read_list" -> Len(ret.val) = ListCount
      [] op = "read_list_2d" ->
            /\ Len(ret.val) = U16At(stream, 0)
            /\ \A i \in 1..Len(ret.val) : Len(ret.val[i]) = U16At(stream, 2)
      [] op = "read_meshes" -> ret.val = vec /\ cursor = num_bytes
      [] OTHER -> TRUE

\* C5: read_vec, read_list, read_list_2d and read_meshes return either an
\* error and no collection, or the collection of every element; a stream too
\* short for an element always gives the error, never the elements before it.
C5_AllOrNothing ==
    (pc = "done" /\ op \in {"read_vec", "read_list", "read_list_2d", "read_meshes"}) =>
        /\ ret.ok => (DOMAIN ret = {"ok", "val"} /\ ~Truncated /\ Complete)
        /\ ~ret.ok => DOMAIN ret = {"ok", "err"}
        /\ Truncated => ~ret.ok

\* A list of count 3 with two whole u16 elements and half of the third.
C5_Witness ==
    /\ pc = "done" /\ op = "read_list"
    /\ arg = [w |-> 16, esz |-> 2]
    /\ Len(stream) = 7
    /\ U16At(stream, 0) = 3
    /\ ret = RetErr("UnexpectedEof")

\* read_meshes: a record ran past the end of the region after one was decoded.
C5_WitnessMeshes ==
    /\ pc = "done" /\ op = "read_meshes"
    /\ Len(vec) = 1
    /\ cursor < num_bytes
    /\ ret = RetErr("UnexpectedEof")

\* C6: read_list with a W-bit length reads the count N from the first W/8
\* bytes, little-endian; with N elements behind it, it returns the N elements
\* in stream order and has consumed exactly W/8 + N * (element size) bytes
\* (W/8 bytes for N = 0).
C6_ReadList ==
    (pc = "done" /\ op = "read_list" /\ Len(stream) >= ListHdr) =>
        /\ Len(stream) >= ListNeed => ret.ok
        /\ ret.ok =>
              /\ Len(ret.val) = ListCount
              /\ \A i \in 1..ListCount :
                    ret.val[i] = ElemAt(stream, ListHdr + (i - 1) * arg.esz, arg.esz)
              /\ pos = ListNeed

\* Two u16 elements behind a 32-bit count, and bytes left behind them.
C6_Witness ==
    /\ pc = "done" /\ op = "read_list"
    /\ arg = [w |-> 32, esz |-> 2]
    /\ ret.ok
    /\ Len(ret.val) = 2
    /\ pos = 8
    /\ Len(stream) > 8

\* C7: read_list_2d reads L1 then L2 (u16, little-endian); with L1 * L2
\* elements behind them it returns L1 rows of exactly L2 elements, element j of
\* row i being element i * L2 + j of the stream (counting from 0), and has
\* consumed exactly 4 + L1 * L2 * (element size) bytes.
C7_Grid ==
    (pc = "done" /\ op = "read_list_2d" /\ Len(stream) >= 4) =>
        LET L1 == U16At(stream, 0)
            L2 == U16At(stream, 2)
        IN  /\ Len(stream) >= GridNeed => ret.ok
            /\ ret.ok =>
                  /\ Len(ret.val) = L1
                  /\ \A i \in 0..(L1 - 1) :
                        /\ Len(ret.val[i + 1]) = L2
                        /\ \A j \in 0..(L2 - 1) :
                              ret.val[i + 1][j + 1] =
                                 ElemAt(stream, 4 + (i * L2 + j) * arg.esz, arg.esz)
                  /\ pos = GridNeed

\* L1 = 2, L2 = 3.
C7_Witness ==
    /\ pc = "done" /\ op = "read_list_2d"
    /\ ret.ok
    /\ Len(ret.val) = 2
    /\ Len(ret.val[1]) = 3
    /\ pos = 10

\* The frame with its uncompressed_len field replaced by h.
WithUncompressedLen(s, h) == h \o SubSeq(s, 5, Len(s))

\* C8: get_zlib buffers exactly the C bytes behind the two u32 fields: with
\* 8 + C bytes in the stream it succeeds, the decoder's input is stream bytes
\* 8 .. 8+C and the stream is left at 8 + C; a frame that differs only in
\* uncompressed_len gives the same outcome, payload and position.
C8_ZlibFrame ==
    (pc = "done" /\ op = "get_zlib" /\ Len(stream) >= 8) =>
        LET C == U32At(stream, 4)
        IN  /\ ret.ok <=> Len(stream) >= 8 + C
            /\ ret.ok => (ret.val = SubSeq(stream, 9, 8 + C) /\ pos = 8 + C)
            /\ \A h \in Hdr32 :
                  LET other == GetZlib(WithUncompressedLen(stream, h), 0)
                  IN  /\ other.ok = ret.ok
                      /\ other.ok => (other.val = ret.val /\ other.pos = pos)

\* uncompressed_len = 4 over a payload of C = 2 bytes.
C8_Witness ==
    /\ pc = "done" /\ op = "get_zlib"
    /\ Len(stream) > 10
    /\ U32At(stream, 0) = 4
    /\ U32At(stream, 4) = 2
    /\ ret = RetOk(SubSeq(stream, 9, 10))
    /\ pos = 10

\* C9: skip::<N> reads one byte per iteration; over N or more bytes it
\* succeeds with exactly N consumed after N reads, over M < N bytes it fails
\* with the I/O error with the M bytes consumed, and the failed read, the
\* (M + 1)-th, is the last.
C9_Skip ==
    op = "skip" =>
        /\ pc = "skip" => (pos = skip_i /\ reads = skip_i /\ skip_i <= arg.n)
        /\ (pc = "done" /\ arg.n <= Len(stream)) =>
              (ret.ok /\ pos = arg.n /\ reads = arg.n)
        /\ (pc = "done" /\ arg.n > Len(stream)) =>
              /\ ret = RetErr("UnexpectedEof")
              /\ pos = Len(stream)
              /\ reads = Len(stream) + 1

\* N = 5 over a 3-byte buffer.
C9_Witness ==
    /\ pc = "done" /\ op = "skip"
    /\ arg.n = 5
    /\ Len(stream) = 3
    /\ ~ret.ok
    /\ reads = 4

\* N = 5 over a 5-byte buffer: success at end-of-data.
C9_WitnessExact ==
    /\ pc = "done" /\ op = "skip"
    /\ arg.n = 5
    /\ Len(stream) = 5
    /\ ret.ok
    /\ pos = 5

\* C10: the cursor of read_meshes strictly increases on every iteration that
\* does not end the call (so the loop cannot go on forever), whatever the
\* record type, a record decoded from 0 bytes included.
C10_CursorStrictlyIncreases ==
    [][(pc = "meshes" /\ pc' = "meshes") => cursor' > cursor]_vars

\* C10: every call of read_meshes that is past the stop check ends either with
\* `B - cursor == 0` and the records, or with the error of a record decode.
C10_EndsByStopOrError ==
    (op = "read_meshes" /\ pc = "done" /\ MeshBuffered) =>
        \/ ret = RetOk(vec) /\ cursor = num_bytes
        \/ ret = RetErr("UnexpectedEof")

====
